---- MODULE Spec2Model ----
(***************************************************************************)
(* Archetype storage of hecs (src/src/archetype.rs): type-erased columnar  *)
(* storage of entities, with swap-remove, growth, cross-archetype moves    *)
(* and teardown; and the borrow guard AtomicBorrow (src/src/borrow.rs).    *)
(*                                                                         *)
(* Memory model.  A storage buffer (Box<[u8]>) is a record                 *)
(*   [size |-> number of bytes, mem |-> set of <<addr, size, value>>]      *)
(* where an entry <<a, s, v>> says that the s bytes from byte offset a are *)
(* the bytes of value v.  Writing or copying over a byte range removes     *)
(* every entry that overlaps it; copying a range carries along the entries *)
(* that lie wholly inside it (a bitwise copy: the source keeps its bytes). *)
(* Bytes that belong to no entry are uninitialised or garbage.             *)
(*                                                                         *)
(* A component value is a token <<entity id, type id, n>>: the n-th value  *)
(* of that type written for that entity.  drops counts, per token, how     *)
(* often a destructor ran on bytes of that value.                          *)
(***************************************************************************)
EXTENDS Integers, Sequences, FiniteSets, TLC

\* ---------------------------------------------------------------- bounds

\* Entities spawned in the two-archetype world (Spec).
MaxIds == 3
\* Cross-archetype moves in the two-archetype world (Spec).
MaxMoves == 1
\* Entities spawned in the growth scenario (SpecGrow): past one doubling.
MaxGrowIds == 66
\* Entities spawned into the archetype without types (SpecZero): past two
\* doublings.
MaxZeroIds == 130
\* Concurrent callers of one borrow guard (SpecBorrow).
MaxCallers == 2
\* Borrows of each kind one caller holds at a time (SpecBorrow).
MaxBorrows == 2

\* ------------------------------------------------------- program constants

\* !0 of a u32 (0xFFFFFFFF), the filler of fresh entity slots; written as its
\* two's-complement reading because the checker's integers are 32-bit signed.
NoEntity == -1

\* A value read from bytes that hold no whole value (uninitialised memory).
Invalid == <<NoEntity, "invalid", 0>>

\* Option::None
None == [some |-> FALSE]

Some(x) == [some |-> TRUE, val |-> x]

\* ------------------------------------------------------------------ types

\* TypeInfo::of::<T>(): id, layout (size, align); the destructor drop_ptr::<T>
\* is modelled by drop_in_place below.
TypeInfo_of(t) ==
    CASE t = "u32"  -> [id |-> t, size |-> 4,   align |-> 4]
      [] t = "u8"   -> [id |-> t, size |-> 1,   align |-> 1]
      [] t = "u64"  -> [id |-> t, size |-> 8,   align |-> 8]
      [] t = "u128" -> [id |-> t, size |-> 16,  align |-> 16]
      [] t = "Big"  -> [id |-> t, size |-> 128, align |-> 128]

TypeIds == {"u32", "u8", "u64", "u128", "Big"}

TypeList(names) == [k \in 1..Len(names) |-> TypeInfo_of(names[k])]

\* The ids of a type list (EntityComponentSet::elements).
elements(types) == {types[k].id : k \in 1..Len(types)}

\* ----------------------------------------------------------------- memory

Overlaps(e, a, n) == e[1] < a + n /\ a < e[1] + e[2]

Inside(e, a, n) == a <= e[1] /\ e[1] + e[2] <= a + n

\* ptr.write(component): the size bytes at addr become those of tok.
write(mem, addr, size, tok) ==
    {e \in mem : ~Overlaps(e, addr, size)} \cup {<<addr, size, tok>>}

\* ptr.read(): the value whose bytes are the size bytes at addr.
read_ptr(mem, addr, size) ==
    IF \E e \in mem : e[1] = addr /\ e[2] = size
    THEN (CHOOSE e \in mem : e[1] = addr /\ e[2] = size)[3]
    ELSE Invalid

\* ptr::copy_nonoverlapping(src, dst, count) from buffer srcmem into dstmem.
copy_nonoverlapping(srcmem, src, dstmem, dst, count) ==
    {e \in dstmem : ~Overlaps(e, dst, count)}
    \cup {<<e[1] - src + dst, e[2], e[3]>> : e \in {x \in srcmem : Inside(x, src, count)}}

\* drop_ptr::<T>(x): runs T's destructor on the value at x.
drop_in_place(d, tok) ==
    IF tok \in DOMAIN d THEN [d EXCEPT ![tok] = @ + 1] ELSE (tok :> 1) @@ d

\* -------------------------------------------------------------- archetype

\* align that forgets to round up.
align_none(x, alignment) == x

\* x & (!alignment + 1): !alignment + 1 is the two's-complement negation of
\* alignment, which for a power of two has exactly the bits from log2(alignment)
\* upwards set; the AND is computed bit by bit from the low end.
RECURSIVE AndNeg(_, _)
AndNeg(x, alignment) ==
    IF alignment = 1 THEN x ELSE 2 * AndNeg(x \div 2, alignment \div 2)

align(x, alignment) == AndNeg(x + alignment - 1, alignment)

\* Archetype::new
new(types) ==
    [types    |-> types,
     offsets  |-> [t \in {} |-> 0],
     entities |-> [i \in {} |-> NoEntity],
     len      |-> 0,
     data     |-> [size |-> 0, mem |-> {}]]

\* self.entities.len()
Capacity(self) == Cardinality(DOMAIN self.entities)

\* data that falls back to the start of the buffer for an unknown type.
data_or_zero(self, T) ==
    Some(IF T \in DOMAIN self.offsets THEN self.offsets[T] ELSE 0)

\* Archetype::data::<T>: the column's base, as a byte offset into the buffer.
data(self, T) ==
    IF T \in DOMAIN self.offsets THEN Some(self.offsets[T]) ELSE None

\* The layout loop adding one value's size per column instead of count values'.
RECURSIVE Layout_unscaled(_, _, _, _, _)
Layout_unscaled(types, k, count, data_size, offsets) ==
    IF k > Len(types)
    THEN [data_size |-> data_size, offsets |-> offsets]
    ELSE LET ty  == types[k]
             off == align(data_size, ty.align)
         IN  Layout_unscaled(types, k + 1, count, off + ty.size,
                             (ty.id :> off) @@ offsets)

\* allocate, lines 89-95: the offsets and the size of a buffer of count slots.
RECURSIVE Layout(_, _, _, _, _)
Layout(types, k, count, data_size, offsets) ==
    IF k > Len(types)
    THEN [data_size |-> data_size, offsets |-> offsets]
    ELSE LET ty  == types[k]
             off == align(data_size, ty.align)
         IN  Layout(types, k + 1, count, off + ty.size * count,
                   (ty.id :> off) @@ offsets)

\* The column copy reading each column at its new offset in the old buffer.
RECURSIVE CopyColumns_new_offset(_, _, _, _, _, _, _)
CopyColumns_new_offset(types, k, old, old_offsets, new_offsets, n, new_data) ==
    IF k > Len(types)
    THEN new_data
    ELSE LET ty == types[k]
         IN  CopyColumns_new_offset(types, k + 1, old, old_offsets, new_offsets, n,
                 copy_nonoverlapping(old, new_offsets[ty.id], new_data,
                                     new_offsets[ty.id], ty.size * n))

\* allocate, lines 104-114: each column copied, in type-list order, from the old
\* buffer into new_data; n is self.entities.len(), read after self.entities was
\* replaced by the grown array.
RECURSIVE CopyColumns(_, _, _, _, _, _, _)
CopyColumns(types, k, old, old_offsets, new_offsets, n, new_data) ==
    IF k > Len(types)
    THEN new_data
    ELSE LET ty == types[k]
         IN  CopyColumns(types, k + 1, old, old_offsets, new_offsets, n,
                 copy_nonoverlapping(old, old_offsets[ty.id], new_data,
                                     new_offsets[ty.id], ty.size * n))

\* The copy of some column reads past the end of the old buffer.
OverReads(self, count) ==
    /\ self.data.size # 0
    /\ \E k \in 1..Len(self.types) :
          self.offsets[self.types[k].id] + self.types[k].size * count > self.data.size

\* Growth by half of the capacity instead of doubling.
GrowCount_half(self) ==
    IF Cardinality(DOMAIN self.entities) = 0
    THEN 64
    ELSE Cardinality(DOMAIN self.entities) + Cardinality(DOMAIN self.entities) \div 2

\* The capacity allocate grows to (lines 80-84).
GrowCount(self) == IF Capacity(self) = 0 THEN 64 ELSE Capacity(self) * 2

\* The grown array without the copy of the old ids (line 86 left out).
GrowEntities_fresh(self, count) == [i \in 0..(count - 1) |-> NoEntity]

\* self.entities after line 87.
GrowEntities(self, count) ==
    [i \in 0..(count - 1) |-> IF i < Capacity(self) THEN self.entities[i] ELSE NoEntity]

\* Archetype::allocate; the result is the archetype and the returned index.
allocate(self, id) ==
    IF self.len < Capacity(self)
    THEN [self  |-> [self EXCEPT !.entities[self.len] = id, !.len = self.len + 1],
          index |-> self.len]
    ELSE LET count == GrowCount(self)
             lay   == Layout(self.types, 1, count, 0, [t \in {} |-> 0])
             mem   == IF self.data.size # 0
                      THEN CopyColumns(self.types, 1, self.data.mem, self.offsets,
                                       lay.offsets, count, {})
                      ELSE {}
             ents  == GrowEntities(self, count)
         IN  [self  |-> [self EXCEPT !.entities = [ents EXCEPT ![self.len] = id],
                                     !.data     = [size |-> lay.data_size, mem |-> mem],
                                     !.offsets  = lay.offsets,
                                     !.len      = self.len + 1],
              index |-> self.len]

\* Archetype::put::<T>
put(self, T, component, index) ==
    [self EXCEPT !.data.mem =
        write(self.data.mem, data(self, T).val + TypeInfo_of(T).size * index,
              TypeInfo_of(T).size, component)]

\* The column loop of remove with the destructor run after the copy, on the
\* relocated value.
RECURSIVE RemoveColumns_copy_first(_, _, _, _, _, _, _)
RemoveColumns_copy_first(types, k, offsets, mem, d, index, last) ==
    IF k > Len(types)
    THEN [mem |-> mem, drops |-> d]
    ELSE LET ty      == types[k]
             base    == offsets[ty.id]
             removed == base + ty.size * index
             mem1    == IF index # last
                        THEN copy_nonoverlapping(mem, base + ty.size * last,
                                                 mem, removed, ty.size)
                        ELSE mem
             d1      == drop_in_place(d, read_ptr(mem1, removed, ty.size))
         IN  RemoveColumns_copy_first(types, k + 1, offsets, mem1, d1, index, last)

\* Archetype::remove, lines 126-139: per type, the destructor runs on the value
\* at index, then the last slot's bytes are copied over it.
RECURSIVE RemoveColumns(_, _, _, _, _, _, _)
RemoveColumns(types, k, offsets, mem, d, index, last) ==
    IF k > Len(types)
    THEN [mem |-> mem, drops |-> d]
    ELSE LET ty      == types[k]
             base    == offsets[ty.id]
             removed == base + ty.size * index
             d1      == drop_in_place(d, read_ptr(mem, removed, ty.size))
             mem1    == IF index # last
                        THEN copy_nonoverlapping(mem, base + ty.size * last,
                                                 mem, removed, ty.size)
                        ELSE mem
         IN  RemoveColumns(types, k + 1, offsets, mem1, d1, index, last)

\* remove that forgets to carry the last entity's id to the vacated index.
remove_keeps_id(self, index, d) ==
    LET last == self.len - 1
        cols == RemoveColumns(self.types, 1, self.offsets, self.data.mem, d, index, last)
    IN  [self  |-> [self EXCEPT !.data.mem = cols.mem, !.len = last],
         drops |-> cols.drops,
         ret   |-> IF index # last THEN Some(self.entities[last]) ELSE None]

\* remove that reports the removed entity instead of the relocated one.
remove_returns_removed(self, index, d) ==
    LET last == self.len - 1
        cols == RemoveColumns(self.types, 1, self.offsets, self.data.mem, d, index, last)
    IN  [self  |-> [self EXCEPT !.data.mem = cols.mem,
                                !.len = last,
                                !.entities = IF index # last
                                             THEN [@ EXCEPT ![index] = self.entities[last]]
                                             ELSE @],
         drops |-> cols.drops,
         ret   |-> IF index # last THEN Some(self.entities[index]) ELSE None]

\* remove that reports a relocation even when the last slot was removed.
remove_always_some(self, index, d) ==
    LET last == self.len - 1
        cols == RemoveColumns(self.types, 1, self.offsets, self.data.mem, d, index, last)
    IN  [self  |-> [self EXCEPT !.data.mem = cols.mem,
                                !.len = last,
                                !.entities = IF index # last
                                             THEN [@ EXCEPT ![index] = self.entities[last]]
                                             ELSE @],
         drops |-> cols.drops,
         ret   |-> Some(self.entities[last])]

\* Archetype::remove; d is the destructor count so far.
remove(self, index, d) ==
    LET last == self.len - 1
        cols == RemoveColumns(self.types, 1, self.offsets, self.data.mem, d, index, last)
    IN  [self  |-> [self EXCEPT !.data.mem = cols.mem,
                                !.len = last,
                                !.entities = IF index # last
                                             THEN [@ EXCEPT ![index] = self.entities[last]]
                                             ELSE @],
         drops |-> cols.drops,
         ret   |-> IF index # last THEN Some(self.entities[last]) ELSE None]

\* Archetype::read::<T>: the value at index, bitwise copied out.
read(self, T, index) ==
    read_ptr(self.data.mem, data(self, T).val + TypeInfo_of(T).size * index,
             TypeInfo_of(T).size)

\* Archetype::move_component_set
move_component_set(a, index) == [archetype |-> a, index |-> index]

\* Archetype::put_dynamic: layout.size bytes at component (in buffer srcmem) are
\* copied to slot index of column ty.
put_dynamic(self, srcmem, component, ty, size, index) ==
    [self EXCEPT !.data.mem =
        copy_nonoverlapping(srcmem, component, @, self.offsets[ty] + size * index, size)]

\* The column loop of move_to handing the slot to the target after the last
\* slot was copied over it.
RECURSIVE MoveColumns_copy_first(_, _, _, _, _, _, _, _)
MoveColumns_copy_first(types, k, offsets, mem, target, index, last, target_index) ==
    IF k > Len(types)
    THEN [mem |-> mem, target |-> target]
    ELSE LET ty      == types[k]
             base    == offsets[ty.id]
             moved   == base + ty.size * index
             mem1    == IF index # last
                        THEN copy_nonoverlapping(mem, base + ty.size * last,
                                                 mem, moved, ty.size)
                        ELSE mem
             target1 == IF ty.id \in DOMAIN target.offsets
                        THEN put_dynamic(target, mem1, moved, ty.id, ty.size, target_index)
                        ELSE target
         IN  MoveColumns_copy_first(types, k + 1, offsets, mem1, target1, index, last,
                                    target_index)

\* Archetype::move_to, lines 167-183.
RECURSIVE MoveColumns(_, _, _, _, _, _, _, _)
MoveColumns(types, k, offsets, mem, target, index, last, target_index) ==
    IF k > Len(types)
    THEN [mem |-> mem, target |-> target]
    ELSE LET ty      == types[k]
             base    == offsets[ty.id]
             moved   == base + ty.size * index
             target1 == IF ty.id \in DOMAIN target.offsets
                        THEN put_dynamic(target, mem, moved, ty.id, ty.size, target_index)
                        ELSE target
             mem1    == IF index # last
                        THEN copy_nonoverlapping(mem, base + ty.size * last,
                                                 mem, moved, ty.size)
                        ELSE mem
         IN  MoveColumns(types, k + 1, offsets, mem1, target1, index, last, target_index)

\* move_to that forgets to shorten the source by the moved entity.
move_to_keeps_len(self, index, target, target_index) ==
    LET last == self.len - 1
        cols == MoveColumns(self.types, 1, self.offsets, self.data.mem, target,
                            index, last, target_index)
    IN  [self   |-> [self EXCEPT !.data.mem = cols.mem,
                                 !.entities = IF index # last
                                              THEN [@ EXCEPT ![index] = self.entities[last]]
                                              ELSE @],
         target |-> cols.target]

\* move_to that forgets to carry the last entity's id to the vacated index.
move_to_keeps_id(self, index, target, target_index) ==
    LET last == self.len - 1
        cols == MoveColumns(self.types, 1, self.offsets, self.data.mem, target,
                            index, last, target_index)
    IN  [self   |-> [self EXCEPT !.data.mem = cols.mem, !.len = self.len - 1],
         target |-> cols.target]

\* Archetype::move_to
move_to(self, index, target, target_index) ==
    LET last == self.len - 1
        cols == MoveColumns(self.types, 1, self.offsets, self.data.mem, target,
                            index, last, target_index)
    IN  [self   |-> [self EXCEPT !.data.mem = cols.mem,
                                 !.entities = IF index # last
                                              THEN [@ EXCEPT ![index] = self.entities[last]]
                                              ELSE @,
                                 !.len = self.len - 1],
         target |-> cols.target]

\* ----------------------------------------------------------- borrow guard
\* src/src/borrow.rs.  A usize is the record [unique |-> its most significant
\* bit, count |-> the bits below it].

\* usize::max_value() >> 1: every bit below the top one.  The count is that of
\* a 32-bit usize; with 64 bits it is 2^63 - 1.  No operation of the guard
\* computes with the stored value, so nothing depends on the width.
COUNTER_MASK == [unique |-> FALSE, count |-> 2147483647]

\* !(usize::max_value() >> 1): the top bit alone.
UNIQUE_BIT == [unique |-> TRUE, count |-> 0]

\* COUNTER_MASK | UNIQUE_BIT, as the tests build it: the two masks share no bit.
COUNTER_MASK_or_UNIQUE_BIT == [unique |-> TRUE, count |-> COUNTER_MASK.count]

\* AtomicBorrow::new(): AtomicUsize::new(0)
AtomicBorrow_new == [unique |-> FALSE, count |-> 0]

\* AtomicBorrow::borrow: the result and the stored value afterwards.
borrow(self) == [ret |-> TRUE, self |-> self]

\* AtomicBorrow::borrow_mut
borrow_mut(self) == [ret |-> TRUE, self |-> self]

\* AtomicBorrow::release
release(self) == self

\* AtomicBorrow::release_mut
release_mut(self) == self

\* ------------------------------------------------------------------ state

ArchIds == {1, 2}

\* arch    the archetypes
\* life    per archetype: live, or inside / after its destructor (Drop::drop,
\*         with the loop variable i, the loop bound n and, for reference, the
\*         values that were live when the destructor was entered)
\* pending the slot returned by the last allocate and the columns of it the
\*         caller has still to write
\* mv      the cross-archetype move the caller is carrying out
\* cset    the EntityComponentSet in existence, if any
\* held    values the caller owns after Archetype::read
\* nextId  the next fresh entity id
\* gen     per (entity, type): how many values were written for it
\* drops   per value: how many times a destructor ran on it
\* moves   cross-archetype moves started
\* loc     the caller's record of where each live entity is
\* lim     the scenario's limits
\* fault   the process died on an out-of-bounds read
\* ret     the last call and what it returned
\* counter the AtomicBorrow guarding a column (the stored usize)
\* granted per caller: the shared and exclusive borrows it was granted and has
\*         not released
\* abandoned values a move left behind: of a type the destination lacks and not
\*         extracted before the component set was consumed
VARIABLES arch, life, pending, mv, cset, held, nextId, gen, drops, moves, loc, lim, fault, ret,
          counter, granted, abandoned

vars == <<arch, life, pending, mv, cset, held, nextId, gen, drops, moves, loc, lim, fault, ret,
          counter, granted, abandoned>>

\* The borrow guard and its callers.
bvars == <<counter, granted>>

\* The callers of the borrow guard.
Callers == 1..MaxCallers

\* A caller that holds no borrow.
NoGrant == [shared |-> 0, unique |-> 0]

NoPending == [arch |-> 0, index |-> 0, types |-> {}]

NoMove == [active |-> FALSE, src |-> 0, index |-> 0, dst |-> 0, tindex |-> 0, read |-> {}]

NoRet == [op |-> "none", arch |-> 0, arg |-> 0, val |-> None]

Live == [st |-> "live", i |-> 0, n |-> 0, vals |-> {}]

InitWith(archs, limits) ==
    /\ arch = archs
    /\ life = [a \in ArchIds |-> Live]
    /\ pending = NoPending
    /\ mv = NoMove
    /\ cset = None
    /\ held = {}
    /\ nextId = 1
    /\ gen = [k \in {} |-> 0]
    /\ drops = [k \in {} |-> 0]
    /\ moves = 0
    /\ loc = [e \in {} |-> 0]
    /\ lim = limits
    /\ fault = FALSE
    /\ ret = NoRet
    /\ counter = AtomicBorrow_new
    /\ granted = [c \in Callers |-> NoGrant]
    /\ abandoned = {}

\* The world of the move scenario: archetypes {A, B} and {A, C} with A = u32,
\* B = u8, C = u64, each type list in descriptor order. Entities are spawned
\* into the first and reach the second by a move.
Init ==
    InitWith([a \in ArchIds |->
                 IF a = 1 THEN new(TypeList(<<"u32", "u8">>))
                          ELSE new(TypeList(<<"u64", "u32">>))],
             [ids |-> MaxIds, moves |-> MaxMoves, archs |-> ArchIds, spawn |-> {1},
              removes |-> TRUE])

\* The caller is between operations: no slot awaits its values, no move is under
\* way, every extracted value has been let go of, no archetype is inside its
\* destructor.
Idle ==
    /\ ~fault
    /\ pending.types = {}
    /\ ~mv.active
    /\ held = {}
    /\ \A a \in ArchIds : life[a].st # "dropping"

Usable(a) == a \in lim.archs /\ life[a].st = "live"

\* The caller's record without the entity it holds to be at index of a.
Forget(l, a, index) ==
    [e \in {x \in DOMAIN l : l[x] # [arch |-> a, index |-> index]} |-> l[e]]

\* The caller's record once it is told that entity moved (an Option) now sits at
\* index of a.
Relocated(l, moved, a, index) ==
    IF moved.some /\ moved.val \in DOMAIN l
    THEN [l EXCEPT ![moved.val] = [arch |-> a, index |-> index]]
    ELSE l

\* The values in the live slots of an archetype.
LiveValues(self) ==
    {read_ptr(self.data.mem, self.offsets[self.types[k].id] + self.types[k].size * i,
              self.types[k].size) : k \in 1..Len(self.types), i \in 0..(self.len - 1)}

\* What the out-of-bounds read of a growing allocate can do.
AllocOutcomes(self) ==
    IF self.len >= Capacity(self) /\ OverReads(self, GrowCount(self))
    THEN {"garbage", "fault"}
    ELSE {"garbage"}

\* A call of allocate(id) on archetype a.
AllocateCall(a, id, oob) ==
    LET r == allocate(arch[a], id)
    IN  IF oob = "fault"
        THEN /\ arch' = [arch EXCEPT ![a].entities =
                            GrowEntities(arch[a], GrowCount(arch[a]))]
             /\ fault' = TRUE
             /\ UNCHANGED <<pending, ret>>
        ELSE /\ arch' = [arch EXCEPT ![a] = r.self]
             /\ pending' = [arch |-> a, index |-> r.index,
                            types |-> elements(arch[a].types)]
             /\ ret' = [op |-> "allocate", arch |-> a, arg |-> id, val |-> Some(r.index)]
             /\ UNCHANGED fault

\* allocate(id) for a fresh entity; the caller must now write every column.
Allocate(a) ==
    /\ Idle
    /\ Usable(a)
    /\ a \in lim.spawn
    /\ nextId <= lim.ids
    /\ \E oob \in AllocOutcomes(arch[a]) :
          /\ AllocateCall(a, nextId, oob)
          /\ nextId' = IF oob = "fault" THEN nextId ELSE nextId + 1
          /\ loc' = IF oob = "fault" THEN loc
                    ELSE (nextId :> [arch |-> a, index |-> arch[a].len]) @@ loc
    /\ UNCHANGED <<life, mv, cset, held, gen, drops, moves, lim, bvars, abandoned>>

\* The first step of moving the entity at index of archetype a to archetype b:
\* allocate(id) on b.
AllocateTarget(a, index, b) ==
    /\ Idle
    /\ Usable(a) /\ Usable(b) /\ a # b
    /\ moves < lim.moves
    /\ index < arch[a].len
    /\ \E oob \in AllocOutcomes(arch[b]) :
          /\ AllocateCall(b, arch[a].entities[index], oob)
          /\ mv' = IF oob = "fault" THEN mv
                   ELSE [active |-> TRUE, src |-> a, index |-> index, dst |-> b,
                         tindex |-> arch[b].len, read |-> {}]
          /\ moves' = IF oob = "fault" THEN moves ELSE moves + 1
    /\ UNCHANGED <<life, cset, held, nextId, gen, drops, loc, lim, bvars, abandoned>>

\* put::<T>(component, index) into the slot just allocated. During a move the
\* caller writes only the types the source lacks.
Put(a, T) ==
    /\ ~fault
    /\ pending.arch = a
    /\ T \in pending.types
    /\ mv.active => T \notin elements(arch[mv.src].types)
    /\ data(arch[a], T).some
    /\ LET id  == arch[a].entities[pending.index]
           n   == IF <<id, T>> \in DOMAIN gen THEN gen[<<id, T>>] + 1 ELSE 1
       IN  /\ arch' = [arch EXCEPT ![a] = put(arch[a], T, <<id, T, n>>, pending.index)]
           /\ gen' = (<<id, T>> :> n) @@ gen
    /\ pending' = IF pending.types = {T} THEN NoPending
                  ELSE [pending EXCEPT !.types = @ \ {T}]
    /\ ret' = [op |-> "put", arch |-> a, arg |-> pending.index, val |-> None]
    /\ UNCHANGED <<life, mv, cset, held, nextId, drops, moves, loc, lim, fault, bvars, abandoned>>

\* remove(index) with a live index.
Remove(a, index) ==
    /\ Idle
    /\ Usable(a)
    /\ lim.removes
    /\ index < arch[a].len
    /\ LET r == remove(arch[a], index, drops)
       IN  /\ arch' = [arch EXCEPT ![a] = r.self]
           /\ drops' = r.drops
           /\ ret' = [op |-> "remove", arch |-> a, arg |-> index, val |-> r.ret]
           /\ loc' = Relocated(Forget(loc, a, index), r.ret, a, index)
    /\ UNCHANGED <<life, pending, mv, cset, held, nextId, gen, moves, lim, fault, bvars, abandoned>>

\* read::<T>(index): the caller extracts a value the destination has no column
\* for, before the component set is made.
Read(a, T) ==
    /\ ~fault
    /\ mv.active /\ mv.src = a
    /\ ~cset.some
    /\ T \in elements(arch[a].types) \ elements(arch[mv.dst].types)
    /\ T \notin mv.read
    /\ data(arch[a], T).some
    /\ held' = held \cup {read(arch[a], T, mv.index)}
    /\ mv' = [mv EXCEPT !.read = @ \cup {T}]
    /\ ret' = [op |-> "read", arch |-> a, arg |-> mv.index,
               val |-> Some(read(arch[a], T, mv.index))]
    /\ UNCHANGED <<arch, life, pending, cset, nextId, gen, drops, moves, loc, lim, fault, bvars, abandoned>>

\* The caller lets go of an extracted value: its destructor runs.
DropValue(tok) ==
    /\ ~fault
    /\ tok \in held
    /\ held' = held \ {tok}
    /\ drops' = drop_in_place(drops, tok)
    /\ UNCHANGED <<arch, life, pending, mv, cset, nextId, gen, moves, loc, lim, fault, ret, bvars, abandoned>>

\* move_component_set(index)
MoveComponentSet(a) ==
    /\ ~fault
    /\ mv.active /\ mv.src = a
    /\ ~cset.some
    /\ cset' = Some(move_component_set(a, mv.index))
    /\ ret' = [op |-> "move_component_set", arch |-> a, arg |-> mv.index, val |-> None]
    /\ UNCHANGED <<arch, life, pending, mv, held, nextId, gen, drops, moves, loc, lim, fault, bvars, abandoned>>

\* EntityComponentSet::store(target, index): consumes the set.
Store(b) ==
    /\ ~fault
    /\ cset.some
    /\ mv.active /\ mv.dst = b
    /\ LET a == cset.val.archetype
           r == move_to(arch[a], cset.val.index, arch[b], mv.tindex)
       IN  /\ arch' = [arch EXCEPT ![a] = r.self, ![b] = r.target]
           /\ pending' = IF pending.types \subseteq elements(arch[a].types)
                         THEN NoPending
                         ELSE [pending EXCEPT !.types = @ \ elements(arch[a].types)]
           /\ ret' = [op |-> "store", arch |-> a, arg |-> cset.val.index, val |-> None]
           /\ loc' = LET e     == arch[b].entities[mv.tindex]
                         there == [loc EXCEPT ![e] = [arch |-> b, index |-> mv.tindex]]
                     IN  IF cset.val.index < r.self.len
                         THEN Relocated(there, Some(r.self.entities[cset.val.index]),
                                        a, cset.val.index)
                         ELSE there
    /\ abandoned' = abandoned \cup
           {read(arch[cset.val.archetype], T, cset.val.index) :
               T \in (elements(arch[cset.val.archetype].types)
                         \ elements(arch[b].types)) \ mv.read}
    /\ cset' = None
    /\ mv' = NoMove
    /\ UNCHANGED <<life, held, nextId, gen, drops, moves, lim, fault, bvars>>

\* Drop::drop is entered: the range 0..self.len is evaluated once.
DropStart(a) ==
    /\ Idle
    /\ Usable(a)
    /\ life' = [life EXCEPT ![a] = [st |-> "dropping", i |-> 0, n |-> arch[a].len,
                                   vals |-> LiveValues(arch[a])]]
    /\ loc' = [e \in {x \in DOMAIN loc : loc[x].arch # a} |-> loc[e]]
    /\ UNCHANGED <<arch, pending, mv, cset, held, nextId, gen, drops, moves, lim, fault, ret, bvars, abandoned>>

\* The loop of Drop::drop leaving alone every index that is no longer live.
DropIter_checked(a) ==
    /\ ~fault
    /\ life[a].st = "dropping"
    /\ life[a].i < life[a].n
    /\ LET i == life[a].i
       IN  IF arch[a].entities[i] # NoEntity /\ i < arch[a].len
           THEN LET r == remove(arch[a], i, drops)
                IN  /\ arch' = [arch EXCEPT ![a] = r.self]
                    /\ drops' = r.drops
                    /\ ret' = [op |-> "drop_remove", arch |-> a, arg |-> i, val |-> r.ret]
           ELSE /\ ret' = [op |-> "drop_skip", arch |-> a, arg |-> i, val |-> None]
                /\ UNCHANGED <<arch, drops>>
    /\ life' = [life EXCEPT ![a].i = @ + 1]
    /\ UNCHANGED <<pending, mv, cset, held, nextId, gen, moves, loc, lim, fault, bvars, abandoned>>

\* One iteration of the loop of Drop::drop.
DropIter(a) ==
    /\ ~fault
    /\ life[a].st = "dropping"
    /\ life[a].i < life[a].n
    /\ LET i == life[a].i
       IN  IF arch[a].entities[i] # NoEntity
           THEN LET r == remove(arch[a], i, drops)
                IN  /\ arch' = [arch EXCEPT ![a] = r.self]
                    /\ drops' = r.drops
                    /\ ret' = [op |-> "drop_remove", arch |-> a, arg |-> i, val |-> r.ret]
           ELSE /\ ret' = [op |-> "drop_skip", arch |-> a, arg |-> i, val |-> None]
                /\ UNCHANGED <<arch, drops>>
    /\ life' = [life EXCEPT ![a].i = @ + 1]
    /\ UNCHANGED <<pending, mv, cset, held, nextId, gen, moves, loc, lim, fault, bvars, abandoned>>

\* The loop of Drop::drop is over; the fields are freed.
DropFinish(a) ==
    /\ ~fault
    /\ life[a].st = "dropping"
    /\ life[a].i = life[a].n
    /\ life' = [life EXCEPT ![a].st = "dropped"]
    /\ UNCHANGED <<arch, pending, mv, cset, held, nextId, gen, drops, moves, loc, lim, fault, ret, bvars, abandoned>>

Next ==
    \/ \E a \in ArchIds : Allocate(a)
    \/ \E a \in ArchIds, T \in TypeIds : Put(a, T)
    \/ \E a \in ArchIds, index \in 0..(MaxIds - 1) : Remove(a, index)
    \/ \E a, b \in ArchIds, index \in 0..(MaxIds - 1) : AllocateTarget(a, index, b)
    \/ \E a \in ArchIds, T \in TypeIds : Read(a, T)
    \/ \E tok \in held : DropValue(tok)
    \/ \E a \in ArchIds : MoveComponentSet(a)
    \/ \E b \in ArchIds : Store(b)
    \/ \E a \in ArchIds : DropStart(a)
    \/ \E a \in ArchIds : DropIter(a)
    \/ \E a \in ArchIds : DropFinish(a)

Spec == Init /\ [][Next]_vars

\* ------------------------------------------------------- growth scenario

\* Type lists of the growth scenario: in and out of descriptor order, with
\* alignments 1 to 128.
GrowTypeLists ==
    {<<"u32", "u8">>, <<"u8", "u64", "u128">>, <<"u128", "u64", "u8">>,
     <<"u8", "Big">>, <<"Big", "u32">>}

\* One archetype, filled past its first doubling and torn down at any point.
InitGrow ==
    \E names \in GrowTypeLists :
        InitWith([a \in ArchIds |-> IF a = 1 THEN new(TypeList(names)) ELSE new(<<>>)],
                 [ids |-> MaxGrowIds, moves |-> 0, archs |-> {1}, spawn |-> {1},
                  removes |-> FALSE])

NextGrow ==
    \/ Allocate(1)
    \/ \E T \in TypeIds : Put(1, T)
    \/ DropStart(1)
    \/ DropIter(1)
    \/ DropFinish(1)

SpecGrow == InitGrow /\ [][NextGrow]_vars

\* Both scenarios side by side.
InitAll == Init \/ InitGrow

SpecAll == InitAll /\ [][Next]_vars

\* ------------------------------------------------ archetype without types

\* An archetype of no types ("entities with no components"): either a few
\* entities with removes, or entities past two doublings without.  allocate
\* then calls alloc with a layout of size 0, which the contract of
\* std::alloc::alloc rules out; the allocators behind it hand back a pointer
\* that is never dereferenced (every column loop is empty), so the call has one
\* outcome.
InitZero ==
    \/ InitWith([a \in ArchIds |-> new(<<>>)],
                [ids |-> MaxIds, moves |-> 0, archs |-> {1}, spawn |-> {1},
                 removes |-> TRUE])
    \/ InitWith([a \in ArchIds |-> new(<<>>)],
                [ids |-> MaxZeroIds, moves |-> 0, archs |-> {1}, spawn |-> {1},
                 removes |-> FALSE])

NextZero ==
    \/ Allocate(1)
    \/ \E index \in 0..(MaxIds - 1) : Remove(1, index)
    \/ DropStart(1)
    \/ DropIter(1)
    \/ DropFinish(1)

SpecZero == InitZero /\ [][NextZero]_vars

\* ----------------------------------------------------- borrow scenario

\* One guard, holding one of the values of a set, and its callers; no archetype
\* is in use.
InitGuard(values) ==
    /\ arch = [a \in ArchIds |-> new(<<>>)]
    /\ life = [a \in ArchIds |-> Live]
    /\ pending = NoPending
    /\ mv = NoMove
    /\ cset = None
    /\ held = {}
    /\ nextId = 1
    /\ gen = [k \in {} |-> 0]
    /\ drops = [k \in {} |-> 0]
    /\ moves = 0
    /\ loc = [e \in {} |-> 0]
    /\ lim = [ids |-> 0, moves |-> 0, archs |-> {}, spawn |-> {}, removes |-> FALSE]
    /\ fault = FALSE
    /\ ret = NoRet
    /\ counter \in values
    /\ granted = [c \in Callers |-> NoGrant]
    /\ abandoned = {}

\* A guard built by AtomicBorrow::new().
InitBorrow == InitGuard({AtomicBorrow_new})

\* The guards the overflow tests build: the counter at its maximum, with the
\* unique bit clear or set.
InitBorrowFull == InitGuard({COUNTER_MASK, COUNTER_MASK_or_UNIQUE_BIT})

avars == <<arch, life, pending, mv, cset, held, nextId, gen, drops, moves, loc, lim, fault,
           abandoned>>

\* Caller c calls borrow(); a true result is a granted shared borrow.
Borrow(c) ==
    /\ granted[c].shared < MaxBorrows
    /\ LET r == borrow(counter)
       IN  /\ counter' = r.self
           /\ granted' = IF r.ret THEN [granted EXCEPT ![c].shared = @ + 1] ELSE granted
           /\ ret' = [op |-> "borrow", arch |-> 0, arg |-> c, val |-> Some(r.ret)]
    /\ UNCHANGED avars

\* Caller c calls borrow_mut(); a true result is a granted exclusive borrow.
BorrowMut(c) ==
    /\ granted[c].unique < MaxBorrows
    /\ LET r == borrow_mut(counter)
       IN  /\ counter' = r.self
           /\ granted' = IF r.ret THEN [granted EXCEPT ![c].unique = @ + 1] ELSE granted
           /\ ret' = [op |-> "borrow_mut", arch |-> 0, arg |-> c, val |-> Some(r.ret)]
    /\ UNCHANGED avars

\* Caller c gives back a shared borrow it was granted: release().
Release(c) ==
    /\ granted[c].shared > 0
    /\ counter' = release(counter)
    /\ granted' = [granted EXCEPT ![c].shared = @ - 1]
    /\ ret' = [op |-> "release", arch |-> 0, arg |-> c, val |-> None]
    /\ UNCHANGED avars

\* Caller c gives back an exclusive borrow it was granted: release_mut().
ReleaseMut(c) ==
    /\ granted[c].unique > 0
    /\ counter' = release_mut(counter)
    /\ granted' = [granted EXCEPT ![c].unique = @ - 1]
    /\ ret' = [op |-> "release_mut", arch |-> 0, arg |-> c, val |-> None]
    /\ UNCHANGED avars

NextBorrow ==
    \/ \E c \in Callers : Borrow(c)
    \/ \E c \in Callers : BorrowMut(c)
    \/ \E c \in Callers : Release(c)
    \/ \E c \in Callers : ReleaseMut(c)

SpecBorrow == InitBorrow /\ [][NextBorrow]_vars

SpecBorrowFull == InitBorrowFull /\ [][NextBorrow]_vars

\* ----------------------------------------------------------------- claims

\* The value last written for entity e in column T.
LastWritten(e, T) == <<e, T, gen[<<e, T>>]>>

\* C1: between operations (allocate with all its columns written, remove, move),
\* every live index of an archetype holds the id of an entity the caller spawned
\* and has not removed or moved out, that entity is recorded at exactly this
\* index, every live entity is found at its recorded index, and each column holds
\* at that index the value last written for the entity.
C1_ColumnsInStep ==
    Idle =>
        \A a \in ArchIds : Usable(a) =>
            /\ \A i \in 0..(arch[a].len - 1) :
                  LET e == arch[a].entities[i]
                  IN  /\ e \in DOMAIN loc
                      /\ loc[e] = [arch |-> a, index |-> i]
                      /\ \A T \in elements(arch[a].types) :
                            /\ <<e, T>> \in DOMAIN gen
                            /\ read(arch[a], T, i) = LastWritten(e, T)
            /\ \A e \in DOMAIN loc :
                  loc[e].arch = a =>
                      /\ loc[e].index < arch[a].len
                      /\ arch[a].entities[loc[e].index] = e

\* C1 witness: after spawns, a move and a swap-remove both archetypes hold entities.
C1_Witness ==
    /\ Idle
    /\ moves = 1
    /\ ret.op = "remove" /\ ret.val.some
    /\ arch[1].len >= 1 /\ arch[2].len >= 1
    /\ C1_ColumnsInStep

\* C2: remove(k) of a slot that is not the last leaves one entity fewer, puts
\* the id of the entity of the last slot and its value of every column at k, and
\* returns that id.
C2_SwapRemove ==
    [][\A a \in ArchIds, k \in 0..(MaxIds - 1) :
          (Remove(a, k) /\ k < arch[a].len - 1) =>
              LET last == arch[a].len - 1
                  e    == arch[a].entities[last]
              IN  /\ arch'[a].len = last
                  /\ arch'[a].entities[k] = e
                  /\ \A T \in elements(arch[a].types) :
                        read(arch'[a], T, k) = LastWritten(e, T)
                  /\ ret'.val = Some(e)]_vars

\* C2 witness: the scenario of three entities spawned in order into {u32, u8}
\* and remove(0): two are left, the third sits at index 0 with its values.
C2_Witness ==
    /\ ret.op = "remove" /\ ret.arch = 1 /\ ret.arg = 0 /\ ret.val = Some(3)
    /\ arch[1].len = 2
    /\ arch[1].entities[0] = 3 /\ arch[1].entities[1] = 2
    /\ read(arch[1], "u32", 0) = <<3, "u32", 1>>
    /\ read(arch[1], "u8", 0) = <<3, "u8", 1>>
    /\ moves = 0

\* C3: remove of the last live index returns None, leaves one entity fewer and
\* changes neither the id nor any column value of an earlier index.
C3_RemoveLast ==
    [][\A a \in ArchIds, k \in 0..(MaxIds - 1) :
          (Remove(a, k) /\ k = arch[a].len - 1) =>
              /\ ret'.val = None
              /\ arch'[a].len = arch[a].len - 1
              /\ \A i \in 0..(k - 1) :
                    /\ arch'[a].entities[i] = arch[a].entities[i]
                    /\ \A T \in elements(arch[a].types) :
                          /\ read(arch'[a], T, i) = read(arch[a], T, i)
                          /\ read(arch'[a], T, i) # Invalid]_vars

\* C3 witness: the last of three entities was removed, two earlier ones remain.
C3_Witness ==
    /\ ret.op = "remove" /\ ret.arch = 1 /\ ret.arg = 2 /\ ret.val = None
    /\ arch[1].len = 2
    /\ arch[1].entities[0] = 1 /\ arch[1].entities[1] = 2

\* The destructor counts d with one more run on every value of the set S.
Dropped(d, S) ==
    [tok \in DOMAIN d \cup S |->
        (IF tok \in DOMAIN d THEN d[tok] ELSE 0) + (IF tok \in S THEN 1 ELSE 0)]

\* The entities the caller holds to be in archetype a.
Residents(a) == {e \in DOMAIN loc : loc[e].arch = a}

\* C4: no value's destructor runs more than once (and none runs on bytes that
\* hold no value); a remove runs the destructor of exactly the values of the
\* entity at the removed index, one per registered type; and an archetype all of
\* whose entities were removed has live count 0.
C4_Destructors ==
    /\ [](\A tok \in DOMAIN drops : tok # Invalid /\ drops[tok] <= 1)
    /\ [][\A a \in ArchIds, k \in 0..(MaxIds - 1) :
             Remove(a, k) =>
                 LET e == arch[a].entities[k]
                     S == {LastWritten(e, T) : T \in elements(arch[a].types)}
                 IN  /\ Cardinality(S) = Len(arch[a].types)
                     /\ drops' = Dropped(drops, S)]_vars
    /\ [](Idle => \A a \in ArchIds : (Usable(a) /\ Residents(a) = {}) => arch[a].len = 0)

\* C4 witness: three entities were spawned and all of them removed; six values
\* were destroyed.
C4_Witness ==
    /\ Idle
    /\ ret.op = "remove"
    /\ moves = 0
    /\ DOMAIN loc = {}
    /\ Cardinality(DOMAIN drops) >= 6
    /\ \A a \in ArchIds : life[a].st = "live" /\ arch[a].len = 0

\* C5: when the destructor of an archetype has run, every value that was live
\* on entry was destroyed exactly once and the live count is 0.
C5_Teardown ==
    \A a \in ArchIds :
        life[a].st = "dropped" =>
            /\ arch[a].len = 0
            /\ \A tok \in life[a].vals :
                  tok # Invalid /\ tok \in DOMAIN drops /\ drops[tok] = 1

\* C5 witness: an archetype torn down with three live entities, and one torn
\* down empty.
C5_Witness ==
    /\ \E a \in ArchIds : life[a].st = "dropped" /\ life[a].n = 3
                          /\ Cardinality(life[a].vals) = 6
    /\ \E a \in ArchIds : life[a].st = "dropped" /\ life[a].n = 0

\* The entries of a buffer that lie in the column of type T.
Column(self, T) ==
    {e \in self.data.mem :
        Inside(e, self.offsets[T], TypeInfo_of(T).size * Capacity(self))}

\* C6: consuming the component set of the entity at a live index of a source
\* archetype puts the value of every type both archetypes register, unchanged,
\* at the destination index, leaves every destination column of a type the
\* source lacks as it was, and runs no destructor.
C6_MovePreserves ==
    [][\A b \in ArchIds :
          Store(b) =>
              LET a  == cset.val.archetype
                  e  == arch[a].entities[cset.val.index]
                  sT == elements(arch[a].types)
                  dT == elements(arch[b].types)
              IN  /\ \A T \in sT \cap dT :
                        /\ read(arch'[b], T, mv.tindex) = read(arch[a], T, cset.val.index)
                        /\ read(arch'[b], T, mv.tindex) = LastWritten(e, T)
                  /\ \A T \in dT \ sT : Column(arch'[b], T) = Column(arch[b], T)
                  /\ drops' = drops]_vars

\* C6 witness: the first of three entities was moved from {u32, u8} to
\* {u64, u32}: its u32 value is at the new index, the u64 column of the slot is
\* still unwritten, and its u8 value was never destroyed.
C6_Witness ==
    /\ ret.op = "store" /\ ret.arch = 1 /\ ret.arg = 0
    /\ arch[1].len = 2
    /\ pending.arch = 2 /\ pending.types = {"u64"}
    /\ LET e == arch[2].entities[pending.index]
       IN  /\ e = 1
           /\ read(arch[2], "u32", pending.index) = <<e, "u32", 1>>
           /\ read(arch[2], "u64", pending.index) = Invalid
           /\ <<e, "u8", 1>> \notin DOMAIN drops

\* C7: an allocate that grows the capacity leaves every entity id and every
\* column value below the old live count unchanged at its index and runs no
\* destructor.
C7_GrowthPreserves ==
    [][(Allocate(1) /\ Capacity(arch'[1]) # Capacity(arch[1])) =>
          /\ \A i \in 0..(arch[1].len - 1) :
                /\ arch'[1].entities[i] = arch[1].entities[i]
                /\ \A T \in elements(arch[1].types) :
                      /\ read(arch'[1], T, i) = read(arch[1], T, i)
                      /\ read(arch'[1], T, i) = LastWritten(arch[1].entities[i], T)
          /\ drops' = drops]_vars

\* C7 witness: the 65th allocate doubled the capacity and returned; the first
\* and the 64th entity still have their values.
C7_Witness ==
    /\ ret.op = "allocate" /\ ret.val = Some(64)
    /\ Capacity(arch[1]) = 128
    /\ arch[1].len = 65
    /\ \A T \in elements(arch[1].types) :
          /\ read(arch[1], T, 0) = <<1, T, 1>>
          /\ read(arch[1], T, 63) = <<64, T, 1>>

\* A call of allocate on archetype a.
AllocateOn(a) ==
    \/ Allocate(a)
    \/ \E src \in ArchIds, index \in 0..(MaxIds - 1) : AllocateTarget(src, index, a)

\* C8: the live count never exceeds the capacity; only an allocate changes the
\* capacity, only when the live count equals it, and then to 64 from 0 and to
\* twice the old capacity otherwise.
C8_Capacity ==
    /\ [](\A a \in ArchIds : 0 <= arch[a].len /\ arch[a].len <= Capacity(arch[a]))
    /\ [][\A a \in ArchIds :
             Capacity(arch'[a]) # Capacity(arch[a]) =>
                 /\ AllocateOn(a)
                 /\ arch[a].len = Capacity(arch[a])
                 /\ Capacity(arch'[a]) =
                       IF Capacity(arch[a]) = 0 THEN 64 ELSE 2 * Capacity(arch[a])]_vars

\* C8 witness: the allocate at live count 64 = capacity took the capacity to 128.
C8_Witness ==
    /\ ret.op = "allocate" /\ ret.arch = 1 /\ ret.val = Some(64)
    /\ Capacity(arch[1]) = 128
    /\ arch[1].len = 65

\* C9: the byte offset recorded for a column is a multiple of the alignment of
\* its type.
C9_Aligned ==
    \A a \in ArchIds :
        \A k \in 1..Len(arch[a].types) :
            LET ty == arch[a].types[k]
            IN  ty.id \in DOMAIN arch[a].offsets => arch[a].offsets[ty.id] % ty.align = 0

\* C9 witness: alignments 1, 8 and 16 at capacity 128, after a layout at
\* capacity 64.
C9_Witness ==
    /\ arch[1].types = TypeList(<<"u8", "u64", "u128">>)
    /\ Capacity(arch[1]) = 128
    /\ arch[1].offsets["u8"] = 0
    /\ arch[1].offsets["u64"] = 128
    /\ arch[1].offsets["u128"] = 1152

\* C10 as stated: in every state the lookup answers with a column base exactly
\* for the registered types.
C10_Original ==
    \A a \in ArchIds, T \in TypeIds :
        data(arch[a], T).some <=> T \in elements(arch[a].types)

\* C10 amended: the lookup answers with a column base exactly for the registered
\* types of an archetype whose buffer has been allocated (capacity above 0);
\* before the first allocate it signals absence for every type.
C10_Amended ==
    \A a \in ArchIds, T \in TypeIds :
        data(arch[a], T).some <=> (T \in elements(arch[a].types) /\ Capacity(arch[a]) > 0)

\* C10 witness: one archetype answers for its two types and no other, while the
\* other, not yet allocated into, answers for none.
C10_Witness ==
    /\ Capacity(arch[1]) = 64 /\ Capacity(arch[2]) = 0
    /\ data(arch[1], "u32") = Some(0) /\ data(arch[1], "u8") = Some(256)
    /\ ~data(arch[1], "u64").some
    /\ ~data(arch[2], "u32").some

\* ---------------------------------------------------- borrow guard claims

\* The callers that hold a granted exclusive borrow.
Writers == {c \in Callers : granted[c].unique > 0}

\* The callers that hold a granted shared borrow.
Readers == {c \in Callers : granted[c].shared > 0}

\* C11: at most one caller holds a granted exclusive borrow at a time, and no
\* caller holds a granted shared borrow while another holds a granted exclusive
\* borrow.
C11_ReadersXorWriter ==
    /\ Cardinality(Writers) <= 1
    /\ \A w \in Writers : Readers \subseteq {w}

\* C12: borrow_mut on a guard with a shared or an exclusive borrow granted and
\* not yet released returns false.
C12_BorrowMutDenied ==
    [][\A c \in Callers :
          (BorrowMut(c) /\ (Readers # {} \/ Writers # {})) => ret'.val = Some(FALSE)]_vars

\* C13: while an exclusive borrow is granted and not released, borrow returns
\* false; once it was released (none is held any more) borrow returns true.
C13_BorrowDeniedUntilReleaseMut ==
    [][\A c \in Callers :
          Borrow(c) => ret'.val = Some(Writers = {})]_vars

\* C14: on a guard built free and used for shared borrows only, every borrow
\* returns true; when as many releases as borrows were made the stored counter
\* is 0 and borrow_mut returns true; after fewer releases borrow_mut returns
\* false.
C14_SharedCountedBack ==
    /\ [][\A c \in Callers :
             (Borrow(c) /\ Writers = {}) => ret'.val = Some(TRUE)]_vars
    /\ []((Readers = {} /\ Writers = {}) => counter.count = 0)
    /\ [][\A c \in Callers :
             (BorrowMut(c) /\ Writers = {}) => ret'.val = Some(Readers = {})]_vars

\* C15: borrow on a guard whose counter holds COUNTER_MASK panics: it does not
\* return, and the stored value stays as it was.
C15_CounterOverflowPanics ==
    [][\A c \in Callers :
          (Borrow(c) /\ counter.count = COUNTER_MASK.count) =>
              /\ ret'.op = "panic"
              /\ counter' = counter
              /\ granted' = granted]_vars

\* ------------------------------------------------ teardown and move claims

\* C16: every remove called by the destructor of an archetype is given an index
\* below the live count at the moment of the call, and a later call is given a
\* higher index than an earlier one; so no call is made once the live count is 0.
C16_TeardownLiveIndices ==
    [][\A a \in ArchIds :
          (DropIter(a) /\ ret'.op = "drop_remove") =>
              /\ ret'.arg = life[a].i
              /\ life[a].i < arch[a].len
              /\ (ret.op = "drop_remove" /\ ret.arch = a) => ret.arg < ret'.arg]_vars

\* C17: consuming the component set of live index k of a source with n live
\* entities leaves the source as remove(k) would, with no destructor run: n - 1
\* entities; for k < n - 1 the id and every column value of the former last
\* slot at k; every other live slot as it was.
C17_MoveCompactsAsRemove ==
    [][\A b \in ArchIds :
          Store(b) =>
              LET a == cset.val.archetype
                  k == cset.val.index
                  n == arch[a].len
              IN  /\ k < n
                  /\ arch'[a] = remove(arch[a], k, drops).self
                  /\ drops' = drops
                  /\ arch'[a].len = n - 1
                  /\ k < n - 1 =>
                        /\ arch'[a].entities[k] = arch[a].entities[n - 1]
                        /\ \A T \in elements(arch[a].types) :
                              /\ read(arch'[a], T, k) = read(arch[a], T, n - 1)
                              /\ read(arch'[a], T, k) # Invalid
                  /\ \A i \in (0..(n - 2)) \ {k} :
                        /\ arch'[a].entities[i] = arch[a].entities[i]
                        /\ \A T \in elements(arch[a].types) :
                              /\ read(arch'[a], T, i) = read(arch[a], T, i)
                              /\ read(arch'[a], T, i) # Invalid]_vars

\* C17 witness: the set of index 0 of three entities was consumed: the third
\* entity and its values are at index 0, the second is where it was, and no
\* value in the source was destroyed.
C17_Witness ==
    /\ ret.op = "store" /\ ret.arch = 1 /\ ret.arg = 0
    /\ arch[1].len = 2
    /\ arch[1].entities[0] = 3 /\ arch[1].entities[1] = 2
    /\ read(arch[1], "u32", 0) = <<3, "u32", 1>>
    /\ read(arch[1], "u8", 0) = <<3, "u8", 1>>
    /\ read(arch[1], "u8", 1) = <<2, "u8", 1>>
    /\ \A tok \in DOMAIN drops : tok[1] = 1 /\ tok[2] = "u8"

\* Every value ever written: the n-th value of type T written for entity e.
Written == UNION {{<<k[1], k[2], n>> : n \in 1..gen[k]} : k \in DOMAIN gen}

\* C18: no value is ever destroyed twice, and none on bytes that hold no value;
\* and when every move extracted the values the destination has no column for,
\* every extracted value was destroyed by the caller and both archetypes were
\* torn down, every value ever written was destroyed exactly once.
C18_MoveDestroysOnce ==
    /\ \A tok \in DOMAIN drops : tok \in Written /\ drops[tok] = 1
    /\ ((\A a \in ArchIds : life[a].st = "dropped") /\ held = {} /\ abandoned = {}) =>
           \A tok \in Written : tok \in DOMAIN drops /\ drops[tok] = 1

\* C18 witness: three entities were spawned, one was moved with its u8 value
\* extracted and destroyed and its u64 value written, both archetypes were torn
\* down: seven values written, seven destroyed.
C18_Witness ==
    /\ \A a \in ArchIds : life[a].st = "dropped"
    /\ moves = 1 /\ held = {} /\ abandoned = {}
    /\ nextId = 4
    /\ Cardinality(Written) = 7
    /\ \E a \in ArchIds : life[a].n = 2
    /\ \E a \in ArchIds : life[a].n = 1
    /\ \A tok \in Written : tok \in DOMAIN drops /\ drops[tok] = 1

\* C19: an archetype without types has a buffer of size 0 and no column at
\* every capacity; allocate returns the old live count, stores the id there,
\* keeps the ids below it, and takes the capacity from 0 to 64 and from full to
\* twice as much; remove(k) leaves one entity fewer, puts the last entity's id
\* at k and returns it, or returns None for the last index, and keeps the other
\* ids; the destructor of the archetype leaves live count 0.
C19_NoTypes ==
    /\ [](/\ arch[1].types = <<>>
          /\ arch[1].data = [size |-> 0, mem |-> {}]
          /\ DOMAIN arch[1].offsets = {}
          /\ arch[1].len <= Capacity(arch[1])
          /\ ~fault
          /\ life[1].st = "dropped" => arch[1].len = 0)
    /\ [][Allocate(1) =>
             /\ ret'.val = Some(arch[1].len)
             /\ arch'[1].len = arch[1].len + 1
             /\ arch'[1].entities[arch[1].len] = nextId
             /\ \A i \in 0..(arch[1].len - 1) : arch'[1].entities[i] = arch[1].entities[i]
             /\ Capacity(arch'[1]) =
                   IF arch[1].len < Capacity(arch[1]) THEN Capacity(arch[1])
                   ELSE IF Capacity(arch[1]) = 0 THEN 64 ELSE 2 * Capacity(arch[1])]_vars
    /\ [][\A k \in 0..(MaxIds - 1) :
             Remove(1, k) =>
                 LET last == arch[1].len - 1
                 IN  /\ arch'[1].len = last
                     /\ ret'.val = IF k < last THEN Some(arch[1].entities[last]) ELSE None
                     /\ k < last => arch'[1].entities[k] = arch[1].entities[last]
                     /\ \A i \in (0..(last - 1)) \ {k} :
                           arch'[1].entities[i] = arch[1].entities[i]
                     /\ Capacity(arch'[1]) = Capacity(arch[1])
                     /\ drops' = drops]_vars

\* C19 witness: the 129th allocate on the archetype without types took the
\* capacity from 128 to 256; the ids are in place and the buffer has size 0.
C19_Witness ==
    /\ arch[1].types = <<>>
    /\ ret.op = "allocate" /\ ret.val = Some(128)
    /\ Capacity(arch[1]) = 256 /\ arch[1].len = 129
    /\ arch[1].entities[0] = 1 /\ arch[1].entities[64] = 65 /\ arch[1].entities[128] = 129
    /\ arch[1].data.size = 0

\* -------------------------------------------------------- layout claim

\* The first and one past the last byte of the column of the k-th type.
ColumnRange(self, k) ==
    [lo |-> self.offsets[self.types[k].id],
     hi |-> self.offsets[self.types[k].id] + self.types[k].size * Capacity(self)]

\* The bytes of all columns from the k-th on.
RECURSIVE ColumnBytes(_, _)
ColumnBytes(self, k) ==
    IF k > Len(self.types) THEN 0
    ELSE self.types[k].size * Capacity(self) + ColumnBytes(self, k + 1)

\* The order of impl Ord for TypeInfo, as far as the alignments go.
AlignDescending(types) ==
    \A k \in 1..(Len(types) - 1) : types[k].align >= types[k + 1].align

\* C20: once a buffer is allocated (and the process lives), the byte ranges of the columns lie within
\* it and no two of them share a byte; the bytes put writes, at the first and
\* at the last index of the capacity, lie in the column of the type written;
\* a put leaves every other column as it was; and for a type list with
\* alignments descending the size of the buffer is the sum of the columns'.
C20_ColumnsDisjoint ==
    /\ [](\A a \in ArchIds :
             (~fault /\ Capacity(arch[a]) > 0) =>
                 LET self == arch[a]
                     n    == Len(self.types)
                 IN  /\ \A k \in 1..n :
                           /\ 0 <= ColumnRange(self, k).lo
                           /\ ColumnRange(self, k).hi <= self.data.size
                           /\ \A j \in 1..n :
                                 j # k => \/ ColumnRange(self, k).hi <= ColumnRange(self, j).lo
                                          \/ ColumnRange(self, j).hi <= ColumnRange(self, k).lo
                           /\ \A index \in {0, Capacity(self) - 1} :
                                 LET ptr == data(self, self.types[k].id).val
                                            + self.types[k].size * index
                                 IN  /\ ColumnRange(self, k).lo <= ptr
                                     /\ ptr + self.types[k].size <= ColumnRange(self, k).hi
                     /\ AlignDescending(self.types) => self.data.size = ColumnBytes(self, 1))
    /\ [][\A a \in ArchIds, T \in TypeIds :
             Put(a, T) =>
                 \A U \in elements(arch[a].types) \ {T} :
                     Column(arch'[a], U) = Column(arch[a], U)]_vars

\* C20 witness: the list Big, u32 (alignments descending) at capacity 128:
\* the columns follow one another without a gap, and both hold values.
C20_Witness ==
    /\ arch[1].types = TypeList(<<"Big", "u32">>)
    /\ Capacity(arch[1]) = 128
    /\ arch[1].offsets["Big"] = 0
    /\ arch[1].offsets["u32"] = 16384
    /\ arch[1].data.size = 16896
    /\ read(arch[1], "Big", 64) = <<65, "Big", 1>>
    /\ read(arch[1], "u32", 64) = <<65, "u32", 1>>

====
